---- MODULE Spec2Model ----
(***************************************************************************)
(* Verification model of the heihachi frame-data bot.                      *)
(*                                                                         *)
(*  - src/src/wavu/wavu_reader.py: get_move, get_all_parent_values_of,     *)
(*    convert_json_movelist, normalize_hit_ch_input (pure functions over a *)
(*    batch of raw cargoquery records).                                    *)
(*  - src/src/heihachi/bot.py: FrameDataBot.on_ready (coroutines that      *)
(*    interleave at their await points).                                   *)
(*                                                                         *)
(* Python strings that are only copied, compared and concatenated are TLA+ *)
(* strings; strings that are scanned character by character (the hit / ch  *)
(* markup) are sequences of one-character strings.  A call's result is a   *)
(* record whose kind is the Python outcome: a returned value ("str",       *)
(* "None", "Move", "list") or the exception that leaves the call           *)
(* ("TypeError", "RecursionError", "IndexError").                          *)
(***************************************************************************)
EXTENDS Integers, Sequences, FiniteSets, TLC

VARIABLES
    move_list_json,       \* the raw batch, content["cargoquery"]
    character_movelist,   \* the caller's Move list (last list a conversion returned)
    outcome,              \* the last call of the parser: what was called and how it ended
    entry,                \* argument of normalize_hit_ch_input
    normalized,           \* <<>> before the call, <<result>> after it
    synced,               \* FrameDataBot.synced
    syncs,                \* number of calls of self.tree.sync() started
    views,                \* number of calls of self.add_view
    action_channel_id,    \* config.action_channel_id is set
    pc                    \* position of each on_ready coroutine

vars == <<move_list_json, character_movelist, outcome, entry, normalized,
          synced, syncs, views, action_channel_id, pc>>

parserVars == <<move_list_json, character_movelist, outcome>>
normVars   == <<entry, normalized>>
botVars    == <<synced, syncs, views, action_channel_id, pc>>

(***************************************************************************)
(* Bounds                                                                  *)
(***************************************************************************)
\* longest batch
MaxBatch == 3
\* frames the interpreter allows before it raises RecursionError
\* (sys.getrecursionlimit(), 1000 in CPython, scaled down)
RecursionLimit == 6
\* longest hit / ch text given to normalize_hit_ch_input
MaxEntryLen == 6
\* on_ready events delivered to one bot
MaxEvents == 3

(***************************************************************************)
(* Raw records                                                             *)
(***************************************************************************)
Ids == {"a", "b", "c"}

Fields == {"input", "target", "damage"}

\* The characters of a hit / ch text: the three the pattern tells apart
\* and one ordinary character.
Alphabet == {"|", "]", "[", "x"}

\* The field values of the record at position p of the batch.  Every
\* position has its own values, so a Move shows which records it was
\* built from and in which order.
RawInput(p) ==
    CASE p = 1 -> "df+1" [] p = 2 -> ",4" [] p = 3 -> ",1" [] p = 4 -> "~2" [] OTHER -> "+3"

RawTarget(p) ==
    CASE p = 1 -> "m" [] p = 2 -> ",h" [] p = 3 -> ",l" [] p = 4 -> ",M" [] OTHER -> ",H"

RawDamage(p) ==
    CASE p = 1 -> "10" [] p = 2 -> ",20" [] p = 3 -> ",16" [] p = 4 -> ",23" [] OTHER -> ",5"

RawName(p) ==
    CASE p = 1 -> "n1" [] p = 2 -> "n2" [] p = 3 -> "n3" [] p = 4 -> "n4" [] OTHER -> "n5"

RawHit(p) ==
    CASE p = 1 -> <<"[", "[", "x", "|", "x", "]", "]">>
      [] p = 2 -> <<"x">>
      [] p = 3 -> <<"x", "|", "x">>
      [] OTHER -> <<>>

\* move["title"] of the record at position p
RawMoveRecord(p, id, parent) ==
    [id      |-> id,
     name    |-> RawName(p),
     parent  |-> parent,
     input   |-> RawInput(p),
     target  |-> RawTarget(p),
     damage  |-> RawDamage(p),
     block   |-> "-9",
     hit     |-> RawHit(p),
     ch      |-> RawHit(p + 1),
     startup |-> "i15",
     recv    |-> "r20"]

\* The code only compares ids for equality, so a batch stands for every
\* batch that renames its ids: the ids of a batch are numbered in the order
\* of their first appearance ("a" first, then "b", then "c").
IdRank(id) == CASE id = "a" -> 1 [] id = "b" -> 2 [] OTHER -> 3

FirstAppearanceOrder(ids, n) ==
    \A p \in 1..n : \A id \in Ids :
        IdRank(id) < IdRank(ids[p]) => \E q \in 1..(p - 1) : ids[q] = id

\* Every batch of at most MaxBatch records: any ids (equal ids allowed), any
\* parent references (empty, resolving, dangling, cyclic).
Batches ==
    UNION { { [p \in 1..n |-> RawMoveRecord(p, ids[p], parents[p])] :
                ids \in {f \in [1..n -> Ids] : FirstAppearanceOrder(f, n)},
                parents \in [1..n -> Ids \cup {""}] } :
            n \in 0..MaxBatch }

(***************************************************************************)
(* wavu_reader.py: the pure functions                                      *)
(***************************************************************************)
\* A call's result: how it ended, the string it returned (kind "str") and
\* the number of frames of get_all_parent_values_of it entered.
Returned(text, calls) == [kind |-> "str", text |-> text, calls |-> calls]

Ended(kind, calls) == [kind |-> kind, text |-> "", calls |-> calls]

\* `for move in move_list_json: if move["title"]["id"] == move_id:` stops at
\* the first record with that id; 0 when the loop runs to its end.
FirstIndex(move_id, batch) ==
    IF \E p \in 1..Len(batch) : batch[p].id = move_id
    THEN CHOOSE p \in 1..Len(batch) :
            /\ batch[p].id = move_id
            /\ \A q \in 1..(p - 1) : batch[q].id # move_id
    ELSE 0

\* AppendOwn with the operands of + exchanged: the own value first
AppendOwnFirst(r, own) ==
    CASE r.kind = "str"  -> Returned(own \o r.text, r.calls + 1)
      [] r.kind = "None" -> Ended("TypeError", r.calls + 1)
      [] OTHER           -> Ended(r.kind, r.calls + 1)

\* `complete_input += get_all_parent_values_of(...)`, then
\* `return complete_input + move["title"][field]`: the parent's value comes
\* first.  Adding None to a str raises TypeError; an exception of the inner
\* call leaves this call too.
AppendOwn(r, own) ==
    CASE r.kind = "str"  -> Returned(r.text \o own, r.calls + 1)
      [] r.kind = "None" -> Ended("TypeError", r.calls + 1)
      [] OTHER           -> Ended(r.kind, r.calls + 1)

\* get_all_parent_values_of without lines 45-46: the parent is not followed
OwnValueOnly(field, move_id, batch, depth) ==
    IF move_id = "" THEN Returned("", 1)
    ELSE IF FirstIndex(move_id, batch) = 0 THEN Ended("None", 1)
    ELSE Returned(batch[FirstIndex(move_id, batch)][field], 1)

\* get_all_parent_values_of(field, move_id, move_list_json), entered as
\* frame number `depth`; the frame that would exceed the interpreter's limit
\* is not entered.  A non-empty move_id that no record has lets the loop
\* end and the function fall off its end, which returns None.
RECURSIVE get_all_parent_values_of(_, _, _, _)
get_all_parent_values_of(field, move_id, batch, depth) ==
    IF depth > RecursionLimit THEN Ended("RecursionError", 0)
    ELSE IF move_id = "" THEN Returned("", 1)
    ELSE LET p == FirstIndex(move_id, batch) IN
         IF p = 0 THEN Ended("None", 1)
         ELSE IF batch[p].parent # ""
              THEN AppendOwn(get_all_parent_values_of(field, batch[p].parent, batch, depth + 1),
                             batch[p][field])
              ELSE Returned(batch[p][field], 1)

\* The right-hand side of lines 57-59:
\* get_all_parent_values_of(field, move["title"]["parent"], ...) + move["title"][field]
ResolvedField(field, move, batch) ==
    AppendOwn(get_all_parent_values_of(field, move.parent, batch, 1), move[field])

\* One character of `entry` at a time, as re.search tries the pattern
\* \|([^|]+)\]\] : RunEnd is the end of the longest run of non-pipe
\* characters that starts at position q.
RECURSIVE RunEnd(_, _)
RunEnd(s, q) ==
    IF q <= Len(s) /\ s[q] # "|" THEN RunEnd(s, q + 1) ELSE q - 1

\* Backtrack for a lazy ([^|]+?) group: the smallest e in from..hi
BacktrackLazy(s, from, e) ==
    IF \E k \in from..e : k + 2 <= Len(s) /\ s[k + 1] = "]" /\ s[k + 2] = "]"
    THEN CHOOSE k \in from..e :
            /\ k + 2 <= Len(s) /\ s[k + 1] = "]" /\ s[k + 2] = "]"
            /\ \A j \in from..(k - 1) : ~(s[j + 1] = "]" /\ s[j + 2] = "]")
    ELSE 0

\* The greedy [^|]+ gives characters back one at a time until \]\] follows:
\* the largest e in from..hi with s[e+1] = s[e+2] = "]", 0 when there is none.
RECURSIVE Backtrack(_, _, _)
Backtrack(s, from, e) ==
    IF e < from THEN 0
    ELSE IF e + 2 <= Len(s) /\ s[e + 1] = "]" /\ s[e + 2] = "]" THEN e
    ELSE Backtrack(s, from, e - 1)

\* re.search: the match at the leftmost position where the pattern matches.
\* <<from, to>> of group(1), <<0, 0>> when there is no match.
RECURSIVE re_search(_, _)
re_search(s, p) ==
    IF p > Len(s) THEN <<0, 0>>
    ELSE IF s[p] = "|" /\ Backtrack(s, p + 1, RunEnd(s, p + 1)) # 0
         THEN <<p + 1, Backtrack(s, p + 1, RunEnd(s, p + 1))>>
         ELSE re_search(s, p + 1)

normalize_hit_ch_input(s) ==
    IF \E i \in 1..Len(s) : s[i] = "|"
    THEN LET m == re_search(s, 1) IN
         IF m[1] # 0 THEN SubSeq(s, m[1], m[2]) ELSE s
    ELSE s

\* Move(id, name, input, target, damage, on_block, on_hit, on_ch, startup,
\* recovery, notes, ""); notes (html.unescape and BeautifulSoup.get_text,
\* library code) is left out.
Move(move, input, target, damage) ==
    [id       |-> move.id,
     name     |-> move.name,
     input    |-> input,
     target   |-> target,
     damage   |-> damage,
     on_block |-> move.block,
     on_hit   |-> normalize_hit_ch_input(move.hit),
     on_ch    |-> normalize_hit_ch_input(move.ch),
     startup  |-> move.startup,
     recovery |-> move.recv,
     extra    |-> ""]

\* The loop of convert_json_movelist from record i on, move_list being the
\* Moves appended so far.  The first field whose resolution raises ends the
\* call with that exception.
RECURSIVE ConvertFrom(_, _, _)
ConvertFrom(batch, i, move_list) ==
    IF i > Len(batch) THEN [kind |-> "list", moves |-> move_list]
    ELSE LET move   == batch[i]
             input  == ResolvedField("input", move, batch)
             target == ResolvedField("target", move, batch)
             damage == ResolvedField("damage", move, batch)
         IN  IF input.kind # "str" THEN [kind |-> input.kind, moves |-> <<>>]
             ELSE IF target.kind # "str" THEN [kind |-> target.kind, moves |-> <<>>]
             ELSE IF damage.kind # "str" THEN [kind |-> damage.kind, moves |-> <<>>]
             ELSE ConvertFrom(batch, i + 1,
                     Append(move_list, Move(move, input.text, target.text, damage.text)))

\* move_list = [] ... return move_list
convert_json_movelist(batch) == ConvertFrom(batch, 1, <<>>)

\* get_move with result[-1] for result[0]
get_move_last(move_id, move_list) ==
    LET result == SelectSeq(move_list, LAMBDA move : move.id = move_id) IN
    IF Len(result) = 0 THEN [kind |-> "IndexError", moves |-> <<>>]
    ELSE [kind |-> "Move", moves |-> <<result[Len(result)]>>]

\* result = [move for move in move_list if move.id == move_id]; return result[0]
get_move(move_id, move_list) ==
    LET result == SelectSeq(move_list, LAMBDA move : move.id = move_id) IN
    IF Len(result) = 0 THEN [kind |-> "IndexError", moves |-> <<>>]
    ELSE [kind |-> "Move", moves |-> <<result[1]>>]

(***************************************************************************)
(* The parser's callers: one action per call                               *)
(***************************************************************************)
NoCall == [op |-> "none", field |-> "", move_id |-> "", kind |-> "",
           text |-> "", calls |-> 0, moves |-> <<>>]

\* Convert with a move_list that outlives the call (a list shared between
\* calls for the fresh `move_list = []`): the Moves pile up
ConvertIntoSharedList ==
    LET r == convert_json_movelist(move_list_json) IN
    /\ outcome' = [NoCall EXCEPT !.op = "convert", !.kind = r.kind,
                                 !.moves = character_movelist \o r.moves]
    /\ character_movelist' = IF r.kind = "list" THEN character_movelist \o r.moves
                                                ELSE character_movelist
    /\ UNCHANGED move_list_json

\* move_list = convert_json_movelist(move_list_json) (line 31): the caller
\* gets the list when the call returns, and nothing when it raises.
Convert ==
    LET r == convert_json_movelist(move_list_json) IN
    /\ outcome' = [NoCall EXCEPT !.op = "convert", !.kind = r.kind, !.moves = r.moves]
    /\ character_movelist' = IF r.kind = "list" THEN r.moves ELSE character_movelist
    /\ UNCHANGED move_list_json

\* get_all_parent_values_of(field, move_id, move_list_json)
Resolve ==
    \E field \in Fields, move_id \in Ids \cup {""} :
        LET r == get_all_parent_values_of(field, move_id, move_list_json, 1) IN
        /\ outcome' = [NoCall EXCEPT !.op = "resolve", !.field = field, !.move_id = move_id,
                                     !.kind = r.kind, !.text = r.text, !.calls = r.calls]
        /\ UNCHANGED <<move_list_json, character_movelist>>

\* get_move(move_id, character_movelist); "A" differs from "a" in case only
GetMove ==
    \E move_id \in Ids \cup {"A"} :
        LET r == get_move(move_id, character_movelist) IN
        /\ outcome' = [NoCall EXCEPT !.op = "get_move", !.move_id = move_id,
                                     !.kind = r.kind, !.moves = r.moves]
        /\ UNCHANGED <<move_list_json, character_movelist>>

\* normalize_hit_ch_input(entry)
Normalize ==
    /\ normalized = <<>>
    /\ normalized' = <<normalize_hit_ch_input(entry)>>
    /\ UNCHANGED entry

(***************************************************************************)
(* bot.py: FrameDataBot.on_ready.  Each READY event starts one coroutine;  *)
(* a coroutine runs alone from one await to the next.                      *)
(***************************************************************************)
Events == 1..MaxEvents

\* The rest of on_ready after the `if not self.synced` block (lines 52-56)
RestOfHandler ==
    views' = IF action_channel_id THEN views + 1 ELSE views

\* The event is dispatched: on_ready runs to `await self.wait_until_ready()`
OnReadyStart(t) ==
    /\ pc[t] = "none"
    /\ pc' = [pc EXCEPT ![t] = "wait_until_ready"]
    /\ UNCHANGED <<synced, syncs, views, action_channel_id>>

\* wait_until_ready() returns: `if not self.synced:` is read, and either
\* tree.sync() is called and the coroutine suspends on it, or the rest of
\* the handler runs to its end.
OnReadyCheck(t) ==
    /\ pc[t] = "wait_until_ready"
    /\ IF ~synced
       THEN /\ syncs' = syncs + 1
            /\ pc' = [pc EXCEPT ![t] = "tree_sync"]
            /\ UNCHANGED <<synced, views>>
       ELSE /\ RestOfHandler
            /\ pc' = [pc EXCEPT ![t] = "done"]
            /\ UNCHANGED <<synced, syncs>>
    /\ UNCHANGED action_channel_id

\* tree.sync() returns: self.synced = True, then the rest of the handler
OnReadySynced(t) ==
    /\ pc[t] = "tree_sync"
    /\ synced' = TRUE
    /\ RestOfHandler
    /\ pc' = [pc EXCEPT ![t] = "done"]
    /\ UNCHANGED <<syncs, action_channel_id>>

(***************************************************************************)
(* Specifications                                                          *)
(***************************************************************************)
IdleParser ==
    /\ move_list_json = <<>>
    /\ character_movelist = <<>>
    /\ outcome = NoCall

IdleNorm == entry = <<>> /\ normalized = <<>>

\* __init__ (lines 30-34): self.synced = False
IdleBot ==
    /\ synced = FALSE /\ syncs = 0 /\ views = 0 /\ action_channel_id = FALSE
    /\ pc = [t \in Events |-> "none"]

\* The parser: a batch as the query returned it, and no call made yet
Init ==
    /\ move_list_json \in Batches
    /\ character_movelist = <<>>
    /\ outcome = NoCall
    /\ IdleNorm
    /\ IdleBot

Next ==
    \/ Convert /\ UNCHANGED <<normVars, botVars>>
    \/ Resolve /\ UNCHANGED <<normVars, botVars>>
    \/ GetMove /\ UNCHANGED <<normVars, botVars>>

Spec == Init /\ [][Next]_vars

\* The normalizer: any text of at most MaxEntryLen characters
Entries == UNION { [1..n -> Alphabet] : n \in 0..MaxEntryLen }

InitNormalize ==
    /\ entry \in Entries
    /\ normalized = <<>>
    /\ IdleParser
    /\ IdleBot

NextNormalize == Normalize /\ UNCHANGED <<parserVars, botVars>>

SpecNormalize == InitNormalize /\ [][NextNormalize]_vars

\* The bot: constructed, with or without an action channel configured
InitBot ==
    /\ synced = FALSE
    /\ syncs = 0
    /\ views = 0
    /\ action_channel_id \in BOOLEAN
    /\ pc = [t \in Events |-> "none"]
    /\ IdleParser
    /\ IdleNorm

NextBot ==
    \/ \E t \in Events : OnReadyStart(t) /\ UNCHANGED <<parserVars, normVars>>
    \/ \E t \in Events : OnReadyCheck(t) /\ UNCHANGED <<parserVars, normVars>>
    \/ \E t \in Events : OnReadySynced(t) /\ UNCHANGED <<parserVars, normVars>>

SpecBot == InitBot /\ [][NextBot]_vars

(***************************************************************************)
(* Properties                                                              *)
(***************************************************************************)
UniqueIds(batch) ==
    \A p, q \in 1..Len(batch) : batch[p].id = batch[q].id => p = q

Closed(batch) ==
    \A p \in 1..Len(batch) :
        batch[p].parent # "" => \E q \in 1..Len(batch) : batch[q].id = batch[p].parent

\* The position k parent references above record p; 0 when the chain has
\* ended before (at a root, or at a reference no record answers).
RECURSIVE Hop(_, _, _)
Hop(batch, p, k) ==
    IF k = 0 THEN p
    ELSE LET q == Hop(batch, p, k - 1) IN
         IF q = 0 THEN 0
         ELSE IF batch[q].parent = "" THEN 0
         ELSE FirstIndex(batch[q].parent, batch)

\* A chain that is still at a record after as many references as the batch
\* has records has visited one of them twice.
Cyclic(batch, p) == Hop(batch, p, Len(batch)) # 0

Dangling(batch, p) ==
    \E k \in 0..Len(batch) :
        /\ Hop(batch, p, k) # 0
        /\ batch[Hop(batch, p, k)].parent # ""
        /\ FirstIndex(batch[Hop(batch, p, k)].parent, batch) = 0

WellFormed(batch) ==
    /\ UniqueIds(batch)
    /\ Closed(batch)
    /\ \A p \in 1..Len(batch) : ~Cyclic(batch, p)

ChainLength(batch, p) ==
    Cardinality({k \in 0..Len(batch) : Hop(batch, p, k) # 0})

\* The positions of record p's chain, oldest ancestor first, p last
RootFirst(batch, p) ==
    [j \in 1..ChainLength(batch, p) |-> Hop(batch, p, ChainLength(batch, p) - j)]

RECURSIVE Concatenation(_, _, _)
Concatenation(batch, field, positions) ==
    IF positions = <<>> THEN ""
    ELSE batch[Head(positions)][field] \o Concatenation(batch, field, Tail(positions))

Matches(move_id, move_list) ==
    {p \in 1..Len(move_list) : move_list[p].id = move_id}

\* C1: converting a batch with unique ids, resolving parents and acyclic
\* chains gives, for every record and each of input, target and damage, the
\* raw values of the record's ancestors, oldest first, followed by the
\* record's own raw value, with nothing inserted or removed.
C1_ResolvedFieldsAreRootFirst ==
    (outcome.op = "convert" /\ WellFormed(move_list_json)) =>
        /\ outcome.kind = "list"
        /\ Len(outcome.moves) = Len(move_list_json)
        /\ \A p \in 1..Len(move_list_json) : \A field \in Fields :
              outcome.moves[p][field] =
                  Concatenation(move_list_json, field, RootFirst(move_list_json, p))

\* A chain of three: record 3 under record 2 under record 1
C1_Witness ==
    /\ outcome.op = "convert"
    /\ WellFormed(move_list_json)
    /\ Len(move_list_json) = 3
    /\ RootFirst(move_list_json, 3) = <<1, 2, 3>>
    /\ outcome.moves[3].input = "df+1,4,1"
    /\ outcome.moves[3].damage = "10,20,16"

\* C2: resolving a non-empty move_id that no record of the batch has gives
\* the empty string, and converting a batch in which a parent reference
\* dangles (and no chain is cyclic) completes with a Move list.
C2_DanglingParentContributesNothing ==
    /\ (/\ outcome.op = "resolve"
        /\ outcome.move_id # ""
        /\ FirstIndex(outcome.move_id, move_list_json) = 0)
       => (outcome.kind = "str" /\ outcome.text = "")
    /\ (/\ outcome.op = "convert"
        /\ \E p \in 1..Len(move_list_json) : Dangling(move_list_json, p)
        /\ \A p \in 1..Len(move_list_json) : ~Cyclic(move_list_json, p))
       => outcome.kind = "list"

\* C3: resolving a field for a record on a cyclic parent chain, or leading
\* into one, ends in a CyclicReference failure after a number of calls
\* bounded by the batch size.
C3_CycleEndsInCyclicReference ==
    (/\ outcome.op = "resolve"
     /\ FirstIndex(outcome.move_id, move_list_json) # 0
     /\ Cyclic(move_list_json, FirstIndex(outcome.move_id, move_list_json)))
    => (outcome.kind = "CyclicReference" /\ outcome.calls <= Len(move_list_json))

\* C4: get_move with a move_id that no Move of the list has (the empty list
\* included) ends in a NotFound failure.
C4_NoMatchIsNotFound ==
    (outcome.op = "get_move" /\ Matches(outcome.move_id, character_movelist) = {})
    => outcome.kind = "NotFound"

\* C5: when some Move of the list has exactly the id asked for, get_move
\* returns the Move at the smallest such position, and the Move it returns
\* has that id; an id that differs in case only is no match.
C5_GetMoveReturnsFirstMatch ==
    outcome.op = "get_move" =>
        /\ Matches(outcome.move_id, character_movelist) # {} =>
              /\ outcome.kind = "Move"
              /\ \E p \in Matches(outcome.move_id, character_movelist) :
                    /\ \A q \in Matches(outcome.move_id, character_movelist) : p <= q
                    /\ outcome.moves = <<character_movelist[p]>>
        /\ outcome.kind = "Move" => outcome.moves[1].id = outcome.move_id
        /\ outcome.move_id = "A" => outcome.kind # "Move"

\* Two Moves of the list have the id asked for
C5_Witness ==
    /\ outcome.op = "get_move"
    /\ outcome.kind = "Move"
    /\ Cardinality(Matches(outcome.move_id, character_movelist)) >= 2

\* s[p] is a pipe, the characters p+1..e hold no pipe, there is at least
\* one of them, and ]] follows them.
IsMarker(s, p, e) ==
    /\ p \in 1..Len(s)
    /\ s[p] = "|"
    /\ e \in (p + 1)..(Len(s) - 2)
    /\ \A i \in (p + 1)..e : s[i] # "|"
    /\ s[e + 1] = "]"
    /\ s[e + 2] = "]"

HasClosing(s) == \E i \in 1..(Len(s) - 1) : s[i] = "]" /\ s[i + 1] = "]"

HasPipe(s) == \E i \in 1..Len(s) : s[i] = "|"

LastPipe(s) == CHOOSE p \in 1..Len(s) : s[p] = "|" /\ \A q \in (p + 1)..Len(s) : s[q] # "|"

C7_OneMovePerRecordInOrder ==
    outcome.op = "convert" =>
        /\ outcome.kind = "list"
        /\ Len(outcome.moves) = Len(move_list_json)
        /\ \A p \in 1..Len(move_list_json) :
              /\ outcome.moves[p].id = move_list_json[p].id
              /\ outcome.moves[p].name = move_list_json[p].name

C10_SyncedAtMostOnce == syncs <= 1

====
